---- MODULE Spec2Model ----
(***************************************************************************)
(* Paper-tracking pipeline of scrapegraphai/MyNodes and MyGraphs:          *)
(* the SQLite record store (DatabaseManager), the five pipeline stages     *)
(* (EmailLinkNode, PdfFetchNode, PdfToMarkdownNode, DocumentClassifyNode,  *)
(* DocumentSummaryNode) and the graph that runs them in order.             *)
(*                                                                         *)
(* Values.  A column value is a tuple: NULL is <<>>, a text is <<"txt">>,  *)
(* a filesystem path is <<ext, stem, idx>> standing for stem.ext (idx = 1) *)
(* or stem_idx.ext (idx > 1).  A table row and an in-memory AIPaper are    *)
(* records with the eight fields of the AIpaper table.                     *)
(***************************************************************************)
EXTENDS Integers, Sequences, FiniteSets, TLC

VARIABLES
    store,      \* the AIpaper table: a set of rows
    seq,        \* sqlite_sequence: the largest id ever assigned (AUTOINCREMENT)
    files,      \* the filesystem: path -> content
    papers,     \* state["papers"]: the list of in-memory AIPaper objects
    stage,      \* position of the running graph ("idle" when no run is active)
    runs,       \* number of graph runs started
    admin,      \* number of administrative store calls made
    faults,     \* number of failures the environment has produced so far
    issued,     \* history: every id returned by insert_paper, in order
    firstId,    \* history: url -> the id of its first insertion (0: never inserted)
    last,       \* history: the last handler that ran and how it ended
    probe,      \* input and result of a function examined apart from a run
    log         \* history: per-record events of the last stage execution

vars == <<store, seq, files, papers, stage, runs, admin, faults, issued, firstId, last, probe,
          log>>

(***************************************************************************)
(* Bounds                                                                  *)
(***************************************************************************)
MaxRuns == 2
MaxAdmin == 1
MaxMsgs == 2
MaxUrls == 2
MaxFaults == 1
MaxRows == 3
MaxMapSize == 1
MaxCands == 2
MaxResp == 5
MaxPool == 2
MaxLines == 3

URLS == {"a", "b"}

NULL == <<>>

OptFields == {"pdfLink", "mdLink", "summaryLink", "meta", "publishTime", "subject"}

AllFields == {"id", "urlLink"} \cup OptFields

(***************************************************************************)
(* AIPaper dataclass / AIpaper table row                                   *)
(***************************************************************************)
AIPaper(i, u, fm) ==
    [id |-> i, urlLink |-> u,
     pdfLink     |-> IF "pdfLink" \in DOMAIN fm THEN fm["pdfLink"] ELSE NULL,
     mdLink      |-> IF "mdLink" \in DOMAIN fm THEN fm["mdLink"] ELSE NULL,
     summaryLink |-> IF "summaryLink" \in DOMAIN fm THEN fm["summaryLink"] ELSE NULL,
     meta        |-> IF "meta" \in DOMAIN fm THEN fm["meta"] ELSE NULL,
     publishTime |-> IF "publishTime" \in DOMAIN fm THEN fm["publishTime"] ELSE NULL,
     subject     |-> IF "subject" \in DOMAIN fm THEN fm["subject"] ELSE NULL]

EmptyMap == <<>>

Ids(s) == {r.id : r \in s}

RowsById(s, i) == {r \in s : r.id = i}

RowsByUrl(s, u) == {r \in s : r.urlLink = u}

(***************************************************************************)
(* DatabaseManager                                                         *)
(***************************************************************************)

\* SELECT * FROM AIpaper WHERE urlLink = ? ; fetchone(): the table has no index
\* on urlLink, so the scan is in rowid order and the first row has the least id.
\* The result is a set: empty for None, else the one row.
find_by_url(s, u) ==
    LET hit == RowsByUrl(s, u)
    IN  IF hit = {} THEN {}
        ELSE {CHOOSE r \in hit : \A q \in hit : r.id <= q.id}

MaxId(s) ==
    IF s = {} THEN 0 ELSE CHOOSE m \in Ids(s) : \A i \in Ids(s) : i <= m

\* Variant: a plain INTEGER PRIMARY KEY, one more than the largest id now in
\* the table.
NextIdReuse(s, sq) ==
    MaxId(s) + 1

\* id INTEGER PRIMARY KEY AUTOINCREMENT: one more than the larger of the
\* sqlite_sequence entry (the largest id ever inserted) and the largest id now
\* in the table.
NextId(s, sq) ==
    (IF sq > MaxId(s) THEN sq ELSE MaxId(s)) + 1

\* INSERT INTO AIpaper (urlLink, pdfLink, ...) VALUES (...): the id of the
\* argument is not inserted.  Result: [store, seq, id].
insert_paper(s, sq, paper) ==
    LET new_id == NextId(s, sq)
    IN  [store |-> s \cup {[paper EXCEPT !.id = new_id]},
         seq   |-> IF new_id > sq THEN new_id ELSE sq,
         id    |-> new_id]

\* Variant: the row is rewritten from the map, unnamed columns become NULL.
ReplaceRow(r, fm) ==
    AIPaper(r.id, r.urlLink, fm)

\* UPDATE AIpaper SET k = ?, ... WHERE id = ?
MergeRow(r, fm) ==
    [f \in DOMAIN r |-> IF f \in DOMAIN fm THEN fm[f] ELSE r[f]]

\* Variant: the UPDATE has no WHERE clause.
update_fields_all(s, i, fm) ==
    {MergeRow(r, fm) : r \in s}

update_fields(s, i, fm) ==
    {IF r.id = i THEN MergeRow(r, fm) ELSE r : r \in s}

\* SQLite rejects "UPDATE AIpaper SET <fm> WHERE ..." on the rows hit of s, and
\* execute raises with the table unchanged: an empty SET clause is a syntax
\* error; two rows with one id break the PRIMARY KEY constraint.
Rejects(s, hit, fm) ==
    \/ fm = EmptyMap
    \/ \E r \in hit, q \in s :
          /\ q # r
          /\ MergeRow(r, fm).id = (IF q \in hit THEN MergeRow(q, fm) ELSE q).id

\* DELETE FROM AIpaper WHERE id = ?
delete_paper(s, i) ==
    {r \in s : r.id # i}

\* SELECT id WHERE urlLink = ?; then UPDATE ... WHERE urlLink = ? (every row
\* with that url), or insert_paper of a new AIPaper built from the updates.
\* Result: [store, seq, id].

upsert_by_url(s, sq, u, fm) ==
    LET row == find_by_url(s, u)
    IN  IF row # {}
        THEN [store |-> {IF r.urlLink = u THEN MergeRow(r, fm) ELSE r : r \in s},
              seq   |-> sq,
              id    |-> (CHOOSE r \in row : TRUE).id]
        ELSE insert_paper(s, sq, AIPaper(NULL, u, fm))

\* ORDER BY id DESC
RECURSIVE OrderByIdDesc(_)
OrderByIdDesc(rows) ==
    IF rows = {} THEN <<>>
    ELSE LET top == CHOOSE r \in rows : \A q \in rows : q.id <= r.id
         IN  <<top>> \o OrderByIdDesc(rows \ {top})

\* Variant: the filter matches every record that carries the label.
list_papers_by_label(s, subject) ==
    IF subject # NULL /\ subject # <<"">>
    THEN OrderByIdDesc({r \in s : /\ r.subject # NULL
                                  /\ \/ r.subject = subject
                                     \/ /\ r.subject = <<"fintech,llm">>
                                        /\ subject \in {<<"fintech">>, <<"llm">>}})
    ELSE OrderByIdDesc(s)

\* list_papers: `if subject:` is false for None and for the empty string;
\* `WHERE subject = ?` never matches a row whose subject is NULL.
list_papers(s, subject) ==
    IF subject # NULL /\ subject # <<"">>
    THEN OrderByIdDesc({r \in s : r.subject # NULL /\ r.subject = subject})
    ELSE OrderByIdDesc(s)

(***************************************************************************)
(* Filesystem helpers                                                      *)
(***************************************************************************)
exists(fs, path) ==
    path \in DOMAIN fs

WriteFile(fs, path, content) ==
    [q \in DOMAIN fs \cup {path} |-> IF q = path THEN content ELSE fs[q]]

\* Variant: no path is ever found on disk.
ValidNever(fs, v) ==
    FALSE

\* A field that is set and names a file on disk: `p.x and os.path.exists(p.x)`.
Valid(fs, v) ==
    v # NULL /\ exists(fs, v)

\* One per-record event of a stage execution.  store0/store1 are the rows with
\* the record's id before and after the record was processed, mem0/mem1 the
\* in-memory object before and after (sets of at most one element), cands the
\* answers of the record's candidate urls, reqs the network requests made
\* for the record, in order, sel the labels the classifier selected for it
\* and found the publication time it extracted, gen what the text-generation
\* capability did when the summarizer asked it for the record's summary.
Event(i, act, fail, s0, s1, m0, m1, fs0) ==
    [id |-> i, act |-> act, fail |-> fail,
     store0 |-> RowsById(s0, i), store1 |-> RowsById(s1, i),
     mem0 |-> m0, mem1 |-> m1, cands |-> <<>>, reqs |-> <<>>, sel |-> NULL, found |-> NULL,
     gen |-> "",
     pdfValid0 |-> \E r \in RowsById(s0, i) : Valid(fs0, r.pdfLink),
     mdValid0  |-> \E r \in RowsById(s0, i) : Valid(fs0, r.mdLink),
     sumValid0 |-> \E r \in RowsById(s0, i) : Valid(fs0, r.summaryLink)]

FirstSeen(fi, u, i) ==
    IF fi[u] = 0 THEN [fi EXCEPT ![u] = i] ELSE fi

\* The mailbox connection of a handler that opens none.
NoMail == [cred |-> "", connected |-> FALSE, attempts |-> 0, waits |-> <<>>]

NoLast == [op |-> "init", id |-> 0, url |-> "", updates |-> EmptyMap,
           dbError |-> FALSE, raised |-> FALSE, ret |-> 0, mail |-> NoMail,
           subject |-> NULL, rows |-> <<>>, fault |-> FALSE]

Last(op, i, u, fm, dbError, raised, ret) ==
    [op |-> op, id |-> i, url |-> u, updates |-> fm,
     dbError |-> dbError, raised |-> raised, ret |-> ret, mail |-> NoMail,
     subject |-> NULL, rows |-> <<>>, fault |-> FALSE]

(***************************************************************************)
(* EmailLinkNode.execute                                                   *)
(***************************************************************************)
RECURSIVE Flatten(_)
Flatten(msgs) ==
    IF msgs = <<>> THEN <<>> ELSE Head(msgs) \o Flatten(Tail(msgs))

\* Bodies of one message: the urls _extract_urls_from_email_html returns, a
\* list without repetition.
Messages ==
    {<<>>} \cup {<<u>> : u \in URLS}
           \cup {<<u, v>> : <<u, v>> \in {w \in URLS \X URLS : w[1] # w[2]}}

RECURSIVE SeqsUpTo(_, _)
SeqsUpTo(S, n) ==
    IF n = 0 THEN {<<>>}
    ELSE LET shorter == SeqsUpTo(S, n - 1)
         IN  shorter \cup {Append(q, x) : q \in {t \in shorter : Len(t) = n - 1}, x \in S}

Emails == {e \in SeqsUpTo(Messages, MaxMsgs) : Len(Flatten(e)) <= MaxUrls}

\* for attempt in range(5)
MaxAttempts == 5

\* time.sleep(min(2 ** attempt, 10))
BackoffCap == 10

RECURSIVE Pow2(_)
Pow2(n) ==
    IF n = 0 THEN 1 ELSE 2 * Pow2(n - 1)

\* Variant: the wait doubles without a cap.
BackoffUncapped(attempt) ==
    Pow2(attempt)

\* min(2 ** attempt, 10)
Backoff(attempt) ==
    IF Pow2(attempt) < BackoffCap THEN Pow2(attempt) ELSE BackoffCap

\* What the mail server does to the attempts of one connection loop: net[k]
\* tells whether attempt k gets through the network; a rejected credential
\* makes mail.login raise in every attempt.
AttemptOk(cred, net, attempt) ==
    cred = "ok" /\ net[attempt + 1]

\* The loop of _imap_fetch_email_contents: connect, login, select; break at the
\* first success; after a failure sleep Backoff(attempt) and go on.
RECURSIVE ConnectLoop(_, _, _, _)
ConnectLoop(cred, net, attempt, waits) ==
    IF attempt >= MaxAttempts
    THEN [cred |-> cred, connected |-> FALSE, attempts |-> attempt, waits |-> waits]
    ELSE IF AttemptOk(cred, net, attempt)
    THEN [cred |-> cred, connected |-> TRUE, attempts |-> attempt + 1, waits |-> waits]
    ELSE ConnectLoop(cred, net, attempt + 1, Append(waits, Backoff(attempt)))

\* Variant: the bodies are used whether or not the connection was made.
FetchedAnyway(mail, emails) ==
    emails

\* `if mail is None: return contents`: without a connection there is no body.
Fetched(mail, emails) ==
    IF mail.connected THEN emails ELSE <<>>

\* The network lets the attempts fail up to some attempt and lets them through
\* from there on (what it does after the first success is never seen).
NetOutcomes ==
    {[k \in 1..MaxAttempts |-> k > n] : n \in 0..MaxAttempts}

\* account / password of email_config, present and accepted, absent, or
\* rejected by the server at login, with what the network does.
MailInputs ==
    {<<"ok", net>> : net \in NetOutcomes}
        \cup {<<cred, [k \in 1..MaxAttempts |-> TRUE]>> : cred \in {"missing", "rejected"}}

\* The environment produces at most MaxFaults failures in one behaviour: an
\* iteration that ended in a failure (or found no valid PDF) is charged.
Charge(c) ==
    LET e == c.log[Len(c.log)]
    IN  IF e.fail # "" \/ e.act = "none" THEN [c EXCEPT !.faults = @ + 1] ELSE c

Affordable(cs) ==
    {c \in cs : c.faults <= MaxFaults}

\* Variant: every url is inserted without the find_by_url lookup.
HarvestOneNoLookup(c, url) ==
    LET ins == insert_paper(c.store, c.seq, AIPaper(NULL, url, EmptyMap))
        paper == AIPaper(ins.id, url, EmptyMap)
    IN  [c EXCEPT !.store = ins.store, !.seq = ins.seq,
                  !.issued = Append(@, ins.id),
                  !.firstId = FirstSeen(@, url, ins.id),
                  !.out = Append(@, paper),
                  !.log = Append(@, Event(ins.id, "insert", "", c.store, ins.store,
                                          {}, {paper}, c.files))]

\* The body of `for url in urls`: find_by_url, then append the stored record
\* or insert a new one with every optional field None.
HarvestOne(c, url) ==
    LET existing == find_by_url(c.store, url)
    IN  IF existing # {}
        THEN LET e == CHOOSE r \in existing : TRUE
             IN  [c EXCEPT !.out = Append(@, e),
                           !.log = Append(@, Event(e.id, "existing", "", c.store, c.store,
                                                   {}, {e}, c.files))]
        ELSE LET ins == insert_paper(c.store, c.seq, AIPaper(NULL, url, EmptyMap))
                 paper == AIPaper(ins.id, url, EmptyMap)
             IN  [c EXCEPT !.store = ins.store, !.seq = ins.seq,
                           !.issued = Append(@, ins.id),
                           !.firstId = FirstSeen(@, url, ins.id),
                           !.out = Append(@, paper),
                           !.log = Append(@, Event(ins.id, "insert", "", c.store, ins.store,
                                                   {}, {paper}, c.files))]

\* failAt = k > 0: a store call fails while the k-th url is processed; the
\* except clause logs and re-raises.
RECURSIVE HarvestLoop(_, _, _, _)
HarvestLoop(c, urls, k, failAt) ==
    IF k > Len(urls) THEN c
    ELSE IF k = failAt THEN [c EXCEPT !.raised = TRUE]
    ELSE HarvestLoop(HarvestOne(c, urls[k]), urls, k + 1, failAt)

\* A mailbox that does not answer the first attempt is a failure of the
\* environment.
MailTrouble(in) ==
    in[1] # "ok" \/ ~in[2][1]

\* cred = "missing": execute raises ValueError before it opens a connection.
EmailLinkExecute ==
    /\ stage = "idle"
    /\ runs < MaxRuns
    /\ \E in \in {m \in MailInputs : MailTrouble(m) => faults < MaxFaults}, inbox \in Emails :
         IF in[1] = "missing"
         THEN /\ last' = [Last("harvest", 0, "", EmptyMap, FALSE, TRUE, 0)
                             EXCEPT !.mail = [NoMail EXCEPT !.cred = in[1]]]
              /\ papers' = <<>>
              /\ stage' = "idle"
              /\ log' = <<>>
              /\ faults' = faults + 1
              /\ UNCHANGED <<store, seq, issued, firstId>>
         ELSE LET mail == ConnectLoop(in[1], in[2], 0, <<>>)
                  urls == Flatten(Fetched(mail, inbox))
              IN  \E failAt \in 0..(IF faults < MaxFaults /\ ~MailTrouble(in)
                                      THEN Len(urls) ELSE 0) :
                    LET c0 == [store |-> store, seq |-> seq, files |-> files,
                               issued |-> issued, firstId |-> firstId,
                               out |-> <<>>, log |-> <<>>, raised |-> FALSE]
                        c == HarvestLoop(c0, urls, 1, failAt)
                    IN  /\ store' = c.store
                        /\ seq' = c.seq
                        /\ issued' = c.issued
                        /\ firstId' = c.firstId
                        /\ log' = c.log
                        /\ papers' = IF c.raised THEN <<>> ELSE c.out
                        /\ stage' = IF c.raised THEN "idle" ELSE "harvested"
                        /\ last' = [Last("harvest", 0, "", EmptyMap, c.raised, c.raised, 0)
                                       EXCEPT !.mail = mail]
                        /\ faults' = IF c.raised \/ MailTrouble(in)
                                      THEN faults + 1 ELSE faults
    /\ runs' = runs + 1
    /\ UNCHANGED <<files, admin, probe>>

(***************************************************************************)
(* PdfFetchNode                                                            *)
(***************************************************************************)

\* _safe_filename: the basename of the url path.  The two urls of the model
\* end in the same basename, so their downloads meet in one directory.
SafeFilename(u) ==
    CASE u = "a" -> "paper"
      [] u = "b" -> "paper"
      [] OTHER  -> "other"

\* _download_pdf: base.pdf, then base_2.pdf, base_3.pdf, ... : the first path
\* that does not exist.
RECURSIVE FreeIdx(_, _, _)
FreeIdx(fs, stem, k) ==
    IF exists(fs, <<"pdf", stem, k>>) THEN FreeIdx(fs, stem, k + 1) ELSE k

\* Variant: the base path is used whether or not it exists.
SavePathOverwrite(fs, url) ==
    <<"pdf", SafeFilename(url), 1>>

SavePath(fs, url) ==
    <<"pdf", SafeFilename(url), FreeIdx(fs, SafeFilename(url), 1)>>

\* _is_pdf_url: url "b" stands for a url that names a PDF ("....pdf", "/pdf"),
\* url "a" for a page that links to PDFs.
IsPdfUrl(u) ==
    u = "b"

\* b"%PDF-"
PdfMarker == <<"%", "P", "D", "F", "-">>

\* str.lower() on the header values of the model.
Lower(t) ==
    IF t = "Application/PDF" THEN "application/pdf" ELSE t

\* "application/pdf" in ct, for a Content-Type given as its parts.
ContainsPdf(ct) ==
    \E i \in DOMAIN ct : Lower(ct[i]) = "application/pdf"

\* bytes.startswith
StartsWith(chunk, prefix) ==
    Len(chunk) >= Len(prefix) /\ SubSeq(chunk, 1, Len(prefix)) = prefix

\* Variant: a HEAD request that fails rejects the candidate.
validate_pdf_head_first(r) ==
    IF r.head.raised THEN [ok |-> FALSE, reqs |-> <<"HEAD">>]
    ELSE IF ContainsPdf(r.head.ct) THEN [ok |-> TRUE, reqs |-> <<"HEAD">>]
    ELSE [ok   |-> /\ r.get.status = "ok"
                   /\ r.get.chunks # <<>>
                   /\ StartsWith(r.get.chunks[1], PdfMarker),
          reqs |-> <<"HEAD", "GET">>]

\* _validate_pdf of a url that answers with r: r.head is the HEAD response
\* (raised, or the parts of its Content-Type), r.get the streamed GET: status
\* "raise" (no response), "error" (raise_for_status raises) or "ok", and the
\* chunks iter_content yields (none: next() raises StopIteration).
validate_pdf(r) ==
    IF ~r.head.raised /\ ContainsPdf(r.head.ct)
    THEN [ok |-> TRUE, reqs |-> <<"HEAD">>]
    ELSE [ok   |-> /\ r.get.status = "ok"
                   /\ r.get.chunks # <<>>
                   /\ StartsWith(r.get.chunks[1], PdfMarker),
          reqs |-> <<"HEAD", "GET">>]

\* `for c in candidates: if self._validate_pdf(c): target_url = c; break`.
\* target = 0: no candidate validates.
RECURSIVE SelectTarget(_, _, _, _)
SelectTarget(cands, k, target, reqs) ==
    IF k > Len(cands) THEN [target |-> target, reqs |-> reqs]
    ELSE LET v == validate_pdf(cands[k])
             reqs1 == reqs \o [i \in DOMAIN v.reqs |-> <<v.reqs[i], k>>]
         IN  IF v.ok THEN [target |-> k, reqs |-> reqs1]
             ELSE SelectTarget(cands, k + 1, target, reqs1)

NoProbe == [pc |-> "none", cands |-> <<>>, target |-> 0, reqs |-> <<>>]

\* Two answers a candidate of a pipeline run gives: a PDF served with a wrong
\* Content-Type, and a page that is no PDF.
GoodResponse ==
    [head |-> [raised |-> FALSE, ct |-> <<"text/html">>],
     get  |-> [status |-> "ok", chunks |-> <<PdfMarker \o <<"1">> >>]]

BadResponse ==
    [head |-> [raised |-> FALSE, ct |-> <<"text/html">>],
     get  |-> [status |-> "ok", chunks |-> << <<"<", "h", "t", "m", "l", ">">> >>]]

RunResponses == {GoodResponse, BadResponse}

\* The candidate lists of a record: the url itself when it names a PDF, else
\* what _find_pdf_candidates extracts from the page (nothing when the page
\* request fails), at most MaxCands urls.
Candidates(u, R) ==
    IF IsPdfUrl(u) THEN {<<r>> : r \in R}
    ELSE SeqsUpTo(R, MaxCands)

\* What the network and the store do for one record: the answers of its
\* candidates, and
\*   dlfail    _download_pdf raises before it opens the file
\*   dlpartial _download_pdf raises while it writes the file
\*   ok        the file is written and update_fields succeeds
\*   dbfail    the file is written and update_fields raises
FetchOutcomes(u) ==
    [cands : Candidates(u, RunResponses), dl : {"dlfail", "dlpartial", "ok", "dbfail"}]

\* Variant: a record whose processing fails is logged and left out of the
\* output list.
Dropped(c, p, act, fail, fs, cands, reqs) ==
    [c EXCEPT !.files = fs,
              !.out = IF fail = "" THEN Append(@, p) ELSE @,
              !.dbError = @ \/ (fail = "storage"),
              !.log = Append(@, [Event(p.id, act, fail, c.store, c.store,
                                       {p}, {p}, c.files)
                                   EXCEPT !.cands = cands, !.reqs = reqs])]

\* updated.append(p) of a record the iteration leaves as it was.
Passed(c, p, act, fail, fs, cands, reqs) ==
    [c EXCEPT !.files = fs,
              !.out = Append(@, p),
              !.dbError = @ \/ (fail = "storage"),
              !.log = Append(@, [Event(p.id, act, fail, c.store, c.store,
                                       {p}, {p}, c.files)
                                   EXCEPT !.cands = cands, !.reqs = reqs])]

\* One iteration of `for p in papers`.
PdfFetchOne(c, p, o) ==
    IF Valid(c.files, p.pdfLink) THEN Passed(c, p, "skip", "", c.files, <<>>, <<>>)
    ELSE LET page == IF IsPdfUrl(p.urlLink) THEN <<>> ELSE << <<"PAGE", 0>> >>
             sel == SelectTarget(o.cands, 1, 0, page)
             reqs == Append(sel.reqs, <<"DOWNLOAD", sel.target>>)
             save_path == SavePath(c.files, p.urlLink)
         IN  CASE sel.target = 0 -> Passed(c, p, "none", "", c.files, o.cands, sel.reqs)
               [] sel.target # 0 /\ o.dl = "dlfail" ->
                    Passed(c, p, "download", "download", c.files, o.cands, reqs)
               [] sel.target # 0 /\ o.dl = "dlpartial" ->
                    Passed(c, p, "download", "download",
                           WriteFile(c.files, save_path, "partial"), o.cands, reqs)
               [] sel.target # 0 /\ o.dl = "dbfail" ->
                    Passed(c, p, "download", "storage",
                           WriteFile(c.files, save_path, "pdf"), o.cands, reqs)
               [] OTHER ->
                    LET s1 == update_fields(c.store, p.id, [pdfLink |-> save_path])
                        p1 == [p EXCEPT !.pdfLink = save_path]
                    IN  [c EXCEPT !.files = WriteFile(c.files, save_path, "pdf"),
                                  !.store = s1,
                                  !.out = Append(@, p1),
                                  !.log = Append(@, [Event(p.id, "download", "", c.store, s1,
                                                           {p}, {p1}, c.files)
                                                       EXCEPT !.cands = o.cands,
                                                              !.reqs = reqs])]

\* `for p in papers`: every context the loop can end in, over the outcomes of
\* the records it processes.
RECURSIVE PdfFetchLoop(_, _, _)
PdfFetchLoop(c, ps, k) ==
    IF k > Len(ps) THEN {c}
    ELSE UNION {PdfFetchLoop(c1, ps, k + 1) :
                    c1 \in Affordable({Charge(PdfFetchOne(c, ps[k], o)) :
                                           o \in FetchOutcomes(ps[k].urlLink)})}

StageStart ==
    [store |-> store, files |-> files, out |-> <<>>, log |-> <<>>, dbError |-> FALSE,
     faults |-> faults]

PdfFetchExecute ==
    /\ stage = "harvested"
    /\ \E c \in PdfFetchLoop(StageStart, papers, 1) :
             /\ store' = c.store
             /\ files' = c.files
             /\ papers' = c.out
             /\ log' = c.log
             /\ faults' = c.faults
             /\ last' = Last("fetch", 0, "", EmptyMap, c.dbError, FALSE, 0)
    /\ stage' = "fetched"
    /\ UNCHANGED <<seq, runs, admin, issued, firstId, probe>>

(***************************************************************************)
(* PdfToMarkdownNode                                                       *)
(***************************************************************************)

\* The stripped lines of an extracted text: a blank line, a short line in
\* capitals, a short line not in capitals, and the same two of 120 characters
\* or more.
TextLines == {"", "ABSTRACT", "intro", "LONG CAPITALS", "long text"}

\* len(ln) < 120
IsShort(ln) ==
    ln \in {"", "ABSTRACT", "intro"}

\* str.isupper()
IsUpper(ln) ==
    ln \in {"ABSTRACT", "LONG CAPITALS"}

\* str.title()
Title(ln) ==
    CASE ln = "ABSTRACT"      -> "Abstract"
      [] ln = "LONG CAPITALS" -> "Long Capitals"
      [] ln = "intro"         -> "Intro"
      [] ln = "long text"     -> "Long Text"
      [] OTHER                -> ln

\* _to_markdown, as the lines it joins: <<TRUE, t>> is the heading "# t",
\* <<FALSE, t>> the plain line t.  An empty text gives the placeholder
\* document.
to_markdown(lines) ==
    IF lines = <<>> THEN << <<TRUE, "placeholder">>, <<FALSE, "">> >>
    ELSE [i \in DOMAIN lines |->
            LET ln == lines[i]
            IN  IF ln = "" THEN <<FALSE, "">>
                ELSE IF IsShort(ln) /\ IsUpper(ln) THEN <<TRUE, Title(ln)>>
                ELSE IF i = 1 /\ IsShort(ln) THEN <<TRUE, ln>>
                ELSE <<FALSE, ln>>]

\* os.path.splitext(path)[0] + ".md"
MdPath(path) ==
    <<"md", path[2], path[3]>>

\*   ok      text is extracted, the file written, update_fields succeeds
\*   exfail  _extract_text_from_pdf fails and returns "": _to_markdown("") is
\*           the placeholder document, which is written and persisted
\*   wfail   open/write of the md file raises
\*   dbfail  update_fields raises
ConvertOutcomes == {"ok", "exfail", "wfail", "dbfail"}

PdfToMarkdownOne(c, p, o) ==
    LET keep(act, fail, fs) ==
            [c EXCEPT !.files = fs,
                      !.out = Append(@, p),
                      !.dbError = @ \/ (fail = "storage"),
                      !.log = Append(@, Event(p.id, act, fail, c.store, c.store,
                                              {p}, {p}, c.files))]
        done(act, fail, fs, md_path) ==
            LET s1 == update_fields(c.store, p.id, [mdLink |-> md_path])
                p1 == [p EXCEPT !.mdLink = md_path]
            IN  [c EXCEPT !.files = fs,
                          !.store = s1,
                          !.out = Append(@, p1),
                          !.log = Append(@, Event(p.id, act, fail, c.store, s1,
                                                  {p}, {p1}, c.files))]
    IN  IF ~Valid(c.files, p.pdfLink) THEN keep("skip", "", c.files)
        ELSE LET md_path == MdPath(p.pdfLink)
             IN  IF exists(c.files, md_path)
                 THEN IF o = "dbfail" THEN keep("reuse", "storage", c.files)
                      ELSE done("reuse", "", c.files, md_path)
                 ELSE CASE o = "wfail"  -> keep("extract", "write", c.files)
                        [] o = "dbfail" -> keep("extract", "storage",
                                                WriteFile(c.files, md_path, "md"))
                        [] o = "exfail" -> done("extract", "extraction",
                                                WriteFile(c.files, md_path, "placeholder"),
                                                md_path)
                        [] OTHER        -> done("extract", "",
                                                WriteFile(c.files, md_path, "md"), md_path)

RECURSIVE PdfToMarkdownLoop(_, _, _)
PdfToMarkdownLoop(c, ps, k) ==
    IF k > Len(ps) THEN {c}
    ELSE UNION {PdfToMarkdownLoop(c1, ps, k + 1) :
                    c1 \in Affordable({Charge(PdfToMarkdownOne(c, ps[k], o)) : o \in ConvertOutcomes})}

PdfToMarkdownExecute ==
    /\ stage = "fetched"
    /\ \E c \in PdfToMarkdownLoop(StageStart, papers, 1) :
             /\ store' = c.store
             /\ files' = c.files
             /\ papers' = c.out
             /\ log' = c.log
             /\ faults' = c.faults
             /\ last' = Last("convert", 0, "", EmptyMap, c.dbError, FALSE, 0)
    /\ stage' = "converted"
    /\ UNCHANGED <<seq, runs, admin, issued, firstId, probe>>

(***************************************************************************)
(* DocumentClassifyNode                                                    *)
(***************************************************************************)

\* A response of the text-generation capability, as its tokens: labels,
\* blanks, and the two commas re.split splits on: "," and the
\* fullwidth comma U+FF0C.
Blank == " "
Commas == {",", "U+FF0C"}
Labels == {"fintech", "llm"}
Tokens == Labels \cup {Blank} \cup Commas

\* re.split(r"[<U+FF0C>,]", resp): the pieces between commas, in order.
RECURSIVE Split(_, _, _)
Split(resp, k, piece) ==
    IF k > Len(resp) THEN <<piece>>
    ELSE IF resp[k] \in Commas THEN <<piece>> \o Split(resp, k + 1, <<>>)
    ELSE Split(resp, k + 1, Append(piece, resp[k]))

\* str.strip()
RECURSIVE Strip(_)
Strip(piece) ==
    IF piece = <<>> THEN <<>>
    ELSE IF Head(piece) = Blank THEN Strip(Tail(piece))
    ELSE IF piece[Len(piece)] = Blank THEN Strip(SubSeq(piece, 1, Len(piece) - 1))
    ELSE piece

\* raw = [s.strip() for s in re.split(...) if s.strip()]
Raw(resp) ==
    LET pieces == Split(resp, 1, <<>>)
        stripped == [i \in DOMAIN pieces |-> Strip(pieces[i])]
    IN  SelectSeq(stripped, LAMBDA x : x # <<>>)

\* `s in subjects`: a piece is a label of the pool when it is that one label
\* and nothing else.
InPool(piece, subjects) ==
    \E i \in DOMAIN subjects : piece = <<subjects[i]>>

\* Variant: a label is appended every time it occurs.
RECURSIVE KeepValidRepeated(_, _, _, _)
KeepValidRepeated(raw, k, subjects, valid) ==
    IF k > Len(raw) THEN valid
    ELSE KeepValidRepeated(raw, k + 1, subjects,
                           IF InPool(raw[k], subjects)
                           THEN Append(valid, raw[k][1]) ELSE valid)

\* for s in raw: if s in subjects and s not in valid: valid.append(s)
RECURSIVE KeepValid(_, _, _, _)
KeepValid(raw, k, subjects, valid) ==
    IF k > Len(raw) THEN valid
    ELSE KeepValid(raw, k + 1, subjects,
                   IF /\ InPool(raw[k], subjects)
                      /\ \A i \in DOMAIN valid : valid[i] # raw[k][1]
                   THEN Append(valid, raw[k][1]) ELSE valid)

\* _llm_select_subjects.  llm: "none" (no model configured), "raise" (the
\* chain raises), "ok" (the chain answers resp; an empty answer is <<>>).
llm_select_subjects(llm, resp, subjects) ==
    IF llm = "none" \/ subjects = <<>> THEN <<>>
    ELSE IF llm = "raise" THEN <<>>
    ELSE KeepValid(Raw(resp), 1, subjects, <<>>)

\* What reading the md file, the text-generation capability and the store do
\* for one record:
\*   read  the md file can be read (else _extract_meta logs and returns the
\*         empty metadata, and no text generation is asked for)
\*   sel   the comma-joined labels _llm_select_subjects returns (NULL: none)
\*   db    update_fields succeeds
ClassifyOutcomes ==
    {o \in [read : BOOLEAN, sel : {NULL, <<"fintech">>}, db : BOOLEAN] :
        ~o.read => o.sel = NULL}

\* _extract_publish_time of the metadata and first page: a function of what
\* was read.  The converted text of the model carries a year, the placeholder
\* document and the empty metadata carry none ("").
PublishTimeOf(fs, md_path, read) ==
    IF read /\ fs[md_path] = "md" THEN <<"2024">> ELSE <<"">>

\* str(meta_dict): determined by the content read from the md file.
MetaText(fs, md_path, read) ==
    IF read THEN <<"meta", fs[md_path]>> ELSE <<"meta", "">>

\* `p.subject or ""`
OrEmpty(v) ==
    IF v = NULL THEN <<"">> ELSE v

\* `publish_time or p.publishTime`
OrElse(v, w) ==
    IF v = NULL \/ v = <<"">> THEN w ELSE v

\* Variant: no check of mdLink; _extract_meta of a missing file is the empty
\* metadata.
DocumentClassifyOneNoGate(c, p, o) ==
    LET read == o.read /\ Valid(c.files, p.mdLink)
        updates == [meta        |-> IF read THEN MetaText(c.files, p.mdLink, read)
                                    ELSE <<"meta", "">>,
                    subject     |-> IF o.sel # NULL THEN o.sel ELSE OrEmpty(p.subject),
                    publishTime |-> IF read
                                    THEN OrElse(PublishTimeOf(c.files, p.mdLink, read),
                                                p.publishTime)
                                    ELSE p.publishTime]
        s1 == update_fields(c.store, p.id, updates)
        p1 == MergeRow(p, updates)
    IN  [c EXCEPT !.store = s1,
                  !.out = Append(@, p1),
                  !.log = Append(@, [Event(p.id, "classify", IF o.read THEN "" ELSE "read",
                                           c.store, s1, {p}, {p1}, c.files)
                                       EXCEPT !.sel = o.sel])]

\* One iteration of `for idx, p in enumerate(papers)`.
DocumentClassifyOne(c, p, o) ==
    LET keep(act, fail) ==
            [c EXCEPT !.out = Append(@, p),
                      !.dbError = @ \/ (fail = "storage"),
                      !.log = Append(@, Event(p.id, act, fail, c.store, c.store,
                                              {p}, {p}, c.files))]
    IN  IF ~Valid(c.files, p.mdLink) THEN keep("skip", "")
        ELSE IF ~o.db THEN keep("classify", "storage")
        ELSE LET updates == [meta        |-> MetaText(c.files, p.mdLink, o.read),
                             subject     |-> IF o.sel # NULL THEN o.sel
                                             ELSE OrEmpty(p.subject),
                             publishTime |-> OrElse(PublishTimeOf(c.files, p.mdLink, o.read),
                                                    p.publishTime)]
                 s1 == update_fields(c.store, p.id, updates)
                 p1 == MergeRow(p, updates)
             IN  [c EXCEPT !.store = s1,
                           !.out = Append(@, p1),
                           !.log = Append(@, [Event(p.id, "classify",
                                                    IF o.read THEN "" ELSE "read",
                                                    c.store, s1, {p}, {p1}, c.files)
                                                EXCEPT !.sel = o.sel,
                                                       !.found = PublishTimeOf(c.files,
                                                                    p.mdLink, o.read)])]

RECURSIVE DocumentClassifyLoop(_, _, _)
DocumentClassifyLoop(c, ps, k) ==
    IF k > Len(ps) THEN {c}
    ELSE UNION {DocumentClassifyLoop(c1, ps, k + 1) :
                    c1 \in Affordable({Charge(DocumentClassifyOne(c, ps[k], o)) : o \in ClassifyOutcomes})}

DocumentClassifyExecute ==
    /\ stage = "converted"
    /\ \E c \in DocumentClassifyLoop(StageStart, papers, 1) :
             /\ store' = c.store
             /\ papers' = c.out
             /\ log' = c.log
             /\ faults' = c.faults
             /\ last' = Last("classify", 0, "", EmptyMap, c.dbError, FALSE, 0)
    /\ stage' = "classified"
    /\ UNCHANGED <<files, seq, runs, admin, issued, firstId, probe>>

(***************************************************************************)
(* DocumentSummaryNode                                                     *)
(***************************************************************************)

\* os.path.splitext(p.mdLink)[0] + ".summary.md"
SummaryPath(path) ==
    <<"summary.md", path[2], path[3]>>

\*   llm / heur   _llm_summary returns text / the chain raises, _llm_summary
\*                returns "" and _summarize is used; the file is written and
\*                update_fields succeeds
\*   none         no model is configured: _llm_summary returns ""
\*   empty        the chain answers with blank text: _llm_summary returns ""
\*                (both logged like heur: no generated text, heuristic used)
\*   wfail        open/write of the summary file raises
\*   dbfail_*     the file is written (or reused) and update_fields raises
SummaryOutcomes == {"llm", "heur", "none", "empty", "wfail", "dbfail_llm", "dbfail_heur"}

\* What the text-generation capability does in an outcome.
Gen(o) ==
    CASE o \in {"llm", "dbfail_llm", "wfail"} -> "text"
      [] o \in {"heur", "dbfail_heur"}        -> "raise"
      [] OTHER                                 -> o

\* _llm_summary: the stripped answer of the chain, "" when no model is
\* configured or the chain raises.
llm_summary(gen) ==
    IF gen = "text" THEN "llm" ELSE ""

\* Variant: no fallback, the text of _llm_summary is written as it is.
SummaryTextNoFallback(o) ==
    llm_summary(Gen(o))

\* summary_text: `if summary_text: used_llm = True else: self._summarize(...)`.
SummaryText(o) ==
    IF llm_summary(Gen(o)) # "" THEN llm_summary(Gen(o)) ELSE "heuristic"

\* Variant: the summary is generated and written whether or not the file
\* exists.
DocumentSummaryOneRegenerate(c, p, o) ==
    LET keep(act, fail, fs) ==
            [c EXCEPT !.files = fs,
                      !.out = Append(@, p),
                      !.dbError = @ \/ (fail = "storage"),
                      !.log = Append(@, Event(p.id, act, fail, c.store, c.store,
                                              {p}, {p}, c.files))]
        done(act, fail, fs, summary_path) ==
            LET s1 == update_fields(c.store, p.id, [summaryLink |-> summary_path])
                p1 == [p EXCEPT !.summaryLink = summary_path]
            IN  [c EXCEPT !.files = fs,
                          !.store = s1,
                          !.out = Append(@, p1),
                          !.log = Append(@, Event(p.id, act, fail, c.store, s1,
                                                  {p}, {p1}, c.files))]
        text == IF o \in {"llm", "dbfail_llm"} THEN "llm" ELSE "heuristic"
        fail == IF o \in {"heur", "dbfail_heur"} THEN "generation" ELSE ""
    IN  IF ~Valid(c.files, p.mdLink) THEN keep("skip", "", c.files)
        ELSE LET summary_path == SummaryPath(p.mdLink)
             IN  CASE o = "wfail" -> keep("generate", "write", c.files)
                   [] o \in {"dbfail_llm", "dbfail_heur"} ->
                          keep("generate", "storage",
                               WriteFile(c.files, summary_path, text))
                   [] OTHER ->
                          done("generate", fail,
                               WriteFile(c.files, summary_path, text), summary_path)

\* One iteration of `for idx, p in enumerate(papers)`.
DocumentSummaryOne(c, p, o) ==
    LET keep(act, fail, fs) ==
            [c EXCEPT !.files = fs,
                      !.out = Append(@, p),
                      !.dbError = @ \/ (fail = "storage"),
                      !.log = Append(@, [Event(p.id, act, fail, c.store, c.store,
                                               {p}, {p}, c.files)
                                           EXCEPT !.gen = IF act = "generate" THEN Gen(o)
                                                          ELSE ""])]
        done(act, fail, fs, summary_path) ==
            LET s1 == update_fields(c.store, p.id, [summaryLink |-> summary_path])
                p1 == [p EXCEPT !.summaryLink = summary_path]
            IN  [c EXCEPT !.files = fs,
                          !.store = s1,
                          !.out = Append(@, p1),
                          !.log = Append(@, [Event(p.id, act, fail, c.store, s1,
                                                   {p}, {p1}, c.files)
                                               EXCEPT !.gen = IF act = "generate"
                                                              THEN Gen(o) ELSE ""])]
        text == SummaryText(o)
        fail == IF o \in {"heur", "none", "empty", "dbfail_heur"} THEN "generation" ELSE ""
    IN  IF ~Valid(c.files, p.mdLink) THEN keep("skip", "", c.files)
        ELSE LET summary_path == SummaryPath(p.mdLink)
             IN  IF exists(c.files, summary_path)
                 THEN IF o \in {"dbfail_llm", "dbfail_heur"}
                      THEN keep("reuse", "storage", c.files)
                      ELSE done("reuse", "", c.files, summary_path)
                 ELSE CASE o = "wfail" -> keep("generate", "write", c.files)
                        [] o \in {"dbfail_llm", "dbfail_heur"} ->
                               keep("generate", "storage",
                                    WriteFile(c.files, summary_path, text))
                        [] OTHER ->
                               done("generate", fail,
                                    WriteFile(c.files, summary_path, text), summary_path)

RECURSIVE DocumentSummaryLoop(_, _, _)
DocumentSummaryLoop(c, ps, k) ==
    IF k > Len(ps) THEN {c}
    ELSE UNION {DocumentSummaryLoop(c1, ps, k + 1) :
                    c1 \in Affordable({Charge(DocumentSummaryOne(c, ps[k], o)) : o \in SummaryOutcomes})}

DocumentSummaryExecute ==
    /\ stage = "classified"
    /\ \E c \in DocumentSummaryLoop(StageStart, papers, 1) :
             /\ store' = c.store
             /\ files' = c.files
             /\ papers' = c.out
             /\ log' = c.log
             /\ faults' = c.faults
             /\ last' = Last("summary", 0, "", EmptyMap, c.dbError, FALSE, 0)
    /\ stage' = "idle"
    /\ UNCHANGED <<seq, runs, admin, issued, firstId, probe>>

(***************************************************************************)
(* Store calls made directly by the application: GoogleScholarPaperGraph   *)
(* db_insert / db_update_fields / db_delete and DatabaseManager            *)
(* upsert_by_url.  The graph run is synchronous, so they happen between    *)
(* runs.  ok = FALSE: the storage layer fails and the call raises.         *)
(***************************************************************************)
FieldValues(f) ==
    CASE f = "pdfLink"     -> {<<"pdf", "paper", 1>>}
      [] f = "mdLink"      -> {<<"md", "paper", 1>>}
      [] f = "summaryLink" -> {NULL}
      [] f = "meta"        -> {<<"meta", "md">>}
      [] f = "publishTime" -> {<<"2021">>}
      [] f = "subject"     -> {<<"fintech,llm">>}
      [] f = "urlLink"     -> URLS
      [] OTHER             -> {1, 3}

RECURSIVE MapsOver(_)
MapsOver(S) ==
    IF S = {} THEN {EmptyMap}
    ELSE LET f == CHOOSE x \in S : TRUE
         IN  {[x \in DOMAIN m \cup {f} |-> IF x = f THEN v ELSE m[x]] :
                  m \in MapsOver(S \ {f}), v \in FieldValues(f)}

\* The update dictionaries the application passes: up to MaxMapSize columns.
FieldMaps ==
    UNION {MapsOver(S) : S \in {T \in SUBSET AllFields : Cardinality(T) <= MaxMapSize}}

\* The optional fields of an AIPaper the caller builds.
PaperMaps ==
    {fm \in FieldMaps : DOMAIN fm \subseteq OptFields}

DbInsert ==
    /\ stage = "idle"
    /\ admin < MaxAdmin
    /\ Cardinality(store) < MaxRows
    /\ \E u \in URLS, fm \in PaperMaps, ok \in BOOLEAN :
         /\ IF ok
            THEN LET ins == insert_paper(store, seq, AIPaper(NULL, u, fm))
                 IN  /\ store' = ins.store
                     /\ seq' = ins.seq
                     /\ issued' = Append(issued, ins.id)
                     /\ firstId' = FirstSeen(firstId, u, ins.id)
                     /\ last' = Last("insert", ins.id, u, fm, FALSE, FALSE, ins.id)
            ELSE /\ UNCHANGED <<store, seq, issued, firstId>>
                 /\ last' = Last("insert", 0, u, fm, TRUE, TRUE, 0)
    /\ admin' = admin + 1
    /\ log' = <<>>
    /\ UNCHANGED <<files, papers, stage, runs, faults, probe>>

DbUpdateFields ==
    /\ stage = "idle"
    /\ admin < MaxAdmin
    /\ \E i \in Ids(store) \cup {seq + 1}, fm \in FieldMaps, ok \in BOOLEAN :
         /\ IF ok /\ ~Rejects(store, RowsById(store, i), fm)
            THEN /\ store' = update_fields(store, i, fm)
                 /\ last' = Last("update_fields", i, "", fm, FALSE, FALSE, 0)
            ELSE /\ UNCHANGED store
                 /\ last' = [Last("update_fields", i, "", fm, TRUE, TRUE, 0)
                                EXCEPT !.fault = ~ok]
    /\ admin' = admin + 1
    /\ log' = <<>>
    /\ UNCHANGED <<seq, issued, firstId, files, papers, stage, runs, faults, probe>>

DbDelete ==
    /\ stage = "idle"
    /\ admin < MaxAdmin
    /\ \E i \in Ids(store) \cup {seq + 1}, ok \in BOOLEAN :
         /\ IF ok
            THEN /\ store' = delete_paper(store, i)
                 /\ last' = Last("delete", i, "", EmptyMap, FALSE, FALSE, 0)
            ELSE /\ UNCHANGED store
                 /\ last' = Last("delete", i, "", EmptyMap, TRUE, TRUE, 0)
    /\ admin' = admin + 1
    /\ log' = <<>>
    /\ UNCHANGED <<seq, issued, firstId, files, papers, stage, runs, faults, probe>>

UpsertByUrl ==
    /\ stage = "idle"
    /\ admin < MaxAdmin
    /\ \E u \in URLS, fm \in FieldMaps, ok \in BOOLEAN :
         /\ (find_by_url(store, u) = {}) => Cardinality(store) < MaxRows
         /\ IF ok /\ ~(find_by_url(store, u) # {} /\ Rejects(store, RowsByUrl(store, u), fm))
            THEN LET up == upsert_by_url(store, seq, u, fm)
                 IN  /\ store' = up.store
                     /\ seq' = up.seq
                     /\ issued' = IF up.seq # seq THEN Append(issued, up.id) ELSE issued
                     /\ firstId' = IF up.seq # seq THEN FirstSeen(firstId, u, up.id)
                                    ELSE firstId
                     /\ last' = Last("upsert", up.id, u, fm, FALSE, FALSE, up.id)
            ELSE /\ UNCHANGED <<store, seq, issued, firstId>>
                 /\ last' = [Last("upsert", 0, u, fm, TRUE, TRUE, 0)
                                EXCEPT !.fault = ~ok]
    /\ admin' = admin + 1
    /\ log' = <<>>
    /\ UNCHANGED <<files, papers, stage, runs, faults, probe>>

\* The subject arguments of db_list: None, the empty string, one label.
ListFilters == {NULL, <<"">>, <<"fintech">>}

\* db_list reads the store and changes nothing.
DbList ==
    /\ stage = "idle"
    /\ \E subject \in ListFilters, ok \in BOOLEAN :
         last' = [Last("list", 0, "", EmptyMap, ~ok, ~ok, 0)
                     EXCEPT !.subject = subject,
                            !.rows = IF ok THEN list_papers(store, subject) ELSE <<>>]
    /\ UNCHANGED <<store, seq, files, papers, stage, runs, admin, faults, issued, firstId,
                   probe, log>>

(***************************************************************************)
(* Specifications                                                          *)
(***************************************************************************)
Init ==
    /\ store = {}
    /\ seq = 0
    /\ files = <<>>
    /\ papers = <<>>
    /\ stage = "idle"
    /\ runs = 0
    /\ admin = 0
    /\ faults = 0
    /\ issued = <<>>
    /\ firstId = [u \in URLS |-> 0]
    /\ last = NoLast
    /\ probe = NoProbe
    /\ log = <<>>

\* GoogleScholarPaperGraph.run: the five nodes in the order of the edges.
Run ==
    \/ EmailLinkExecute
    \/ PdfFetchExecute
    \/ PdfToMarkdownExecute
    \/ DocumentClassifyExecute
    \/ DocumentSummaryExecute

StoreCall ==
    \/ DbInsert
    \/ DbUpdateFields
    \/ DbDelete
    \/ UpsertByUrl
    \/ DbList

Next == Run \/ StoreCall

\* The pipeline alone, from an empty store, with at most MaxFaults failures.
Spec == Init /\ [][Run]_vars

\* One call of GoogleScholarPaperGraph.run on a new store.
LiveInit ==
    /\ store = {}
    /\ seq = 0
    /\ files = <<>>
    /\ papers = <<>>
    /\ stage = "idle"
    /\ runs = MaxRuns - 1
    /\ admin = 0
    /\ faults = 0
    /\ issued = <<>>
    /\ firstId = [u \in URLS |-> 0]
    /\ last = NoLast
    /\ probe = NoProbe
    /\ log = <<>>

\* The graph executes its nodes one after the other in the calling thread: a
\* node that can run does run.
LiveSpec == LiveInit /\ [][Run]_vars /\ WF_vars(Run)

\* The application's store calls between pipeline runs in which nothing fails.
StoreInit ==
    /\ store = {}
    /\ seq = 0
    /\ files = <<>>
    /\ papers = <<>>
    /\ stage = "idle"
    /\ runs = 0
    /\ admin = 0
    /\ faults = MaxFaults
    /\ issued = <<>>
    /\ firstId = [u \in URLS |-> 0]
    /\ last = NoLast
    /\ probe = NoProbe
    /\ log = <<>>

StoreSpec == StoreInit /\ [][Next]_vars

\* The answers a candidate url can give to _validate_pdf.
HeadResponses ==
    {[raised |-> TRUE, ct |-> <<>>]}
        \cup {[raised |-> FALSE, ct |-> ct] :
                  ct \in {<<>>, <<"application/pdf">>, <<"Application/PDF", "charset=binary">>,
                          <<"text/html">>}}

Chunks ==
    {<<>>,
     << PdfMarker \o <<"1">> >>,
     << <<"%", "P", "D", "F">> >>,
     << <<"<">> \o PdfMarker >>,
     << <<"%", "P", "D">>, <<"F", "-">> >>,
     << <<>>, PdfMarker >>,
     << <<"<", "h", "t", "m", "l", ">">> >>}

GetResponses ==
    {[status |-> "raise", chunks |-> <<>>],
     [status |-> "error", chunks |-> << PdfMarker \o <<"1">> >>]}
        \cup {[status |-> "ok", chunks |-> ch] : ch \in Chunks}

Responses == [head : HeadResponses, get : GetResponses]

\* The candidate loop of PdfFetchNode.execute on its own, over every list of
\* at most MaxCands candidates.
ValidateInit ==
    /\ store = {}
    /\ seq = 0
    /\ files = <<>>
    /\ papers = <<>>
    /\ stage = "idle"
    /\ runs = 0
    /\ admin = 0
    /\ faults = 0
    /\ issued = <<>>
    /\ firstId = [u \in URLS |-> 0]
    /\ last = NoLast
    /\ log = <<>>
    /\ probe \in {[pc |-> "in", cands |-> cs, target |-> 0, reqs |-> <<>>] :
                     cs \in SeqsUpTo(Responses, MaxCands)}

FindTarget ==
    /\ probe.pc = "in"
    /\ LET sel == SelectTarget(probe.cands, 1, 0, <<>>)
       IN  probe' = [probe EXCEPT !.pc = "out", !.target = sel.target, !.reqs = sel.reqs]
    /\ UNCHANGED <<store, seq, files, papers, stage, runs, admin, faults, issued, firstId,
                   last, log>>

ValidateSpec == ValidateInit /\ [][FindTarget]_vars

\* _llm_select_subjects on its own, over every response of at most MaxResp
\* tokens and every pool of at most MaxPool labels.
SelectInputs ==
    {[llm |-> "ok", resp |-> r, subjects |-> ps] :
        r \in SeqsUpTo(Tokens, MaxResp), ps \in SeqsUpTo(Labels, MaxPool)}
      \cup {[llm |-> l, resp |-> <<>>, subjects |-> ps] :
               l \in {"none", "raise"}, ps \in SeqsUpTo(Labels, MaxPool)}

SelectInit ==
    /\ store = {}
    /\ seq = 0
    /\ files = <<>>
    /\ papers = <<>>
    /\ stage = "idle"
    /\ runs = 0
    /\ admin = 0
    /\ faults = 0
    /\ issued = <<>>
    /\ firstId = [u \in URLS |-> 0]
    /\ last = NoLast
    /\ log = <<>>
    /\ probe \in {[pc |-> "in", in |-> x, out |-> <<>>] : x \in SelectInputs}

SelectSubjects ==
    /\ probe.pc = "in"
    /\ probe' = [probe EXCEPT !.pc = "out",
                              !.out = llm_select_subjects(probe.in.llm, probe.in.resp,
                                                          probe.in.subjects)]
    /\ UNCHANGED <<store, seq, files, papers, stage, runs, admin, faults, issued, firstId,
                   last, log>>

SelectSpec == SelectInit /\ [][SelectSubjects]_vars

\* _to_markdown on its own, over every text of at most MaxLines lines.
MarkdownInit ==
    /\ store = {}
    /\ seq = 0
    /\ files = <<>>
    /\ papers = <<>>
    /\ stage = "idle"
    /\ runs = 0
    /\ admin = 0
    /\ faults = 0
    /\ issued = <<>>
    /\ firstId = [u \in URLS |-> 0]
    /\ last = NoLast
    /\ log = <<>>
    /\ probe \in {[pc |-> "in", in |-> x, out |-> <<>>] : x \in SeqsUpTo(TextLines, MaxLines)}

ToMarkdown ==
    /\ probe.pc = "in"
    /\ probe' = [probe EXCEPT !.pc = "out", !.out = to_markdown(probe.in)]
    /\ UNCHANGED <<store, seq, files, papers, stage, runs, admin, faults, issued, firstId,
                   last, log>>

MarkdownSpec == MarkdownInit /\ [][ToMarkdown]_vars

\* Two graph runs in two processes execute EmailLinkNode.execute on one
\* database file.  Every DatabaseManager call opens its own connection and
\* commits, so find_by_url and insert_paper are the atomic steps; a run is
\* between them when find_by_url found nothing (at = "insert").  raced
\* records that an insert_paper of a url fell between the other run's
\* find_by_url and insert_paper of the same url.
Harvesters == {1, 2}

RaceInit ==
    /\ store = {}
    /\ seq = 0
    /\ files = <<>>
    /\ papers = <<>>
    /\ stage = "idle"
    /\ runs = 0
    /\ admin = 0
    /\ faults = 0
    /\ issued = <<>>
    /\ firstId = [u \in URLS |-> 0]
    /\ last = NoLast
    /\ log = <<>>
    /\ probe \in {[pc |-> "race", urls |-> us, k |-> [h \in Harvesters |-> 1],
                    at |-> [h \in Harvesters |-> "find"],
                    out |-> [h \in Harvesters |-> <<>>], raced |-> FALSE] :
                     us \in [Harvesters -> SeqsUpTo(URLS, MaxUrls)]}

\* Variant: the lookup is skipped, every url goes on to insert_paper.
RaceFindBlind(h) ==
    /\ probe.pc = "race"
    /\ probe.at[h] = "find"
    /\ probe.k[h] <= Len(probe.urls[h])
    /\ probe' = [probe EXCEPT !.at[h] = "insert"]
    /\ UNCHANGED <<store, seq, files, papers, stage, runs, admin, faults, issued, firstId,
                   last, log>>

\* existing = self.db.find_by_url(url); if existing: papers.append(existing)
RaceFind(h) ==
    /\ probe.pc = "race"
    /\ probe.at[h] = "find"
    /\ probe.k[h] <= Len(probe.urls[h])
    /\ LET existing == find_by_url(store, probe.urls[h][probe.k[h]])
       IN  probe' = IF existing # {}
                    THEN [probe EXCEPT !.out[h] = Append(@, CHOOSE r \in existing : TRUE),
                                       !.k[h] = @ + 1]
                    ELSE [probe EXCEPT !.at[h] = "insert"]
    /\ UNCHANGED <<store, seq, files, papers, stage, runs, admin, faults, issued, firstId,
                   last, log>>

\* new_id = self.db.insert_paper(paper); papers.append(paper)
RaceInsert(h) ==
    /\ probe.pc = "race"
    /\ probe.at[h] = "insert"
    /\ LET url == probe.urls[h][probe.k[h]]
           ins == insert_paper(store, seq, AIPaper(NULL, url, EmptyMap))
       IN  /\ store' = ins.store
           /\ seq' = ins.seq
           /\ probe' = [probe EXCEPT
                          !.out[h] = Append(@, AIPaper(ins.id, url, EmptyMap)),
                          !.k[h] = @ + 1,
                          !.at[h] = "find",
                          !.raced = @ \/ \E g \in Harvesters \ {h} :
                                            /\ probe.at[g] = "insert"
                                            /\ probe.urls[g][probe.k[g]] = url]
    /\ UNCHANGED <<files, papers, stage, runs, admin, faults, issued, firstId, last, log>>

RaceNext == \E h \in Harvesters : RaceFind(h) \/ RaceInsert(h)

RaceSpec == RaceInit /\ [][RaceNext]_vars

(***************************************************************************)
(* Properties                                                              *)
(***************************************************************************)

\* C1: for every url the harvester has inserted, over any number of runs and
\* messages that contain it, the store holds exactly one record with that
\* urlLink, and find_by_url returns the record with the id assigned at the
\* first insertion.
C1_HarvestDedup ==
    \A u \in URLS :
        firstId[u] # 0 =>
            /\ Cardinality(RowsByUrl(store, u)) = 1
            /\ \A r \in find_by_url(store, u) : r.id = firstId[u]
            /\ find_by_url(store, u) # {}

\* A second run has met twice, in two messages, a url stored by the first run.
C1_Witness ==
    /\ runs = 2
    /\ last.op = "harvest"
    /\ ~last.raised
    /\ \E i, j \in DOMAIN papers :
          /\ i < j
          /\ papers[i].urlLink = papers[j].urlLink
          /\ log[i].act = "existing"
          /\ log[j].act = "existing"
          /\ papers[i].id = firstId[papers[i].urlLink]

\* C2: update_fields(id, fieldMap) is a partial merge: the fields named in the
\* map hold the given values, every other field of the record is unchanged,
\* and every other record of the store is unchanged.
C2_UpdateFieldsMerge ==
    [][(/\ last'.op = "update_fields"
        /\ admin' = admin + 1
        /\ ~last'.raised \/ last'.updates = EmptyMap) =>
          /\ Cardinality(store') = Cardinality(store)
          /\ \A r \in store :
                IF r.id = last'.id
                THEN \E q \in store' :
                        \A f \in AllFields :
                            q[f] = IF f \in DOMAIN last'.updates
                                   THEN last'.updates[f] ELSE r[f]
                ELSE r \in store']_vars

\* Only subject was updated on a record the pipeline had filled in, next to
\* another record.
C2_Witness ==
    /\ last.op = "update_fields"
    /\ ~last.raised
    /\ DOMAIN last.updates = {"subject"}
    /\ Cardinality(store) >= 2
    /\ \E r \in store :
          /\ r.id = last.id
          /\ r.subject = last.updates["subject"]
          /\ r.pdfLink # NULL
          /\ r.mdLink # NULL
          /\ r.summaryLink # NULL
          /\ r.meta # NULL
          /\ r.publishTime # NULL

\* C3: in every reachable state no two stored records have the same urlLink.
C3_UrlLinkUnique ==
    \A r, q \in store : r.urlLink = q.urlLink => r = q

\* C4: insert_paper assigns a fresh id: the ids it has returned are pairwise
\* different, also when records were deleted in between, and no two stored
\* rows share an id.
C4_FreshId ==
    /\ \A i, j \in DOMAIN issued : issued[i] = issued[j] => i = j
    /\ \A r, q \in store : r.id = q.id => r = q

\* A record was deleted and the harvester has inserted a record after that.
C4_Witness ==
    /\ last.op = "harvest"
    /\ \E k \in DOMAIN log :
          /\ log[k].act = "insert"
          /\ \E i \in DOMAIN issued :
                /\ issued[i] \notin Ids(store)
                /\ issued[i] < log[k].id
                /\ \A r \in store : r.id # log[k].id => r.id < issued[i]

\* C5: a record's id never changes: in every step, a stored record is still
\* stored under the same id, unless the step deletes that record.
C5_IdStable ==
    [][\A r \in store :
          ~(last'.op = "delete" /\ ~last'.raised /\ last'.id = r.id) =>
              \E q \in store' : q.id = r.id]_vars

\* C6: once a stored record's pdfLink (mdLink, summaryLink) names an existing
\* file, processing the record in a stage neither changes that stored field
\* nor repeats the download (text extraction, summary generation).
C6_Monotone ==
    \A k \in DOMAIN log :
        LET e == log[k]
        IN  /\ e.pdfValid0 =>
                 /\ e.act # "download"
                 /\ \A r \in e.store0, q \in e.store1 : q.pdfLink = r.pdfLink
            /\ e.mdValid0 =>
                 /\ e.act # "extract"
                 /\ \A r \in e.store0, q \in e.store1 : q.mdLink = r.mdLink
            /\ e.sumValid0 =>
                 /\ e.act # "generate"
                 /\ \A r \in e.store0, q \in e.store1 : q.summaryLink = r.summaryLink

\* C7: running the pipeline from an empty store, a stored record with
\* summaryLink has mdLink, a record with mdLink has pdfLink, and a record with
\* meta has mdLink.
C7_Gated ==
    \A r \in store :
        /\ r.summaryLink # NULL => r.mdLink # NULL
        /\ r.mdLink # NULL => r.pdfLink # NULL
        /\ r.meta # NULL => r.mdLink # NULL

\* A run has ended with one record summarized and classified and another
\* record stopped at the first gate.
C7_Witness ==
    /\ last.op = "summary"
    /\ \E r, q \in store :
          /\ r.summaryLink # NULL
          /\ r.meta # NULL
          /\ r.mdLink # NULL
          /\ r.pdfLink # NULL
          /\ q.pdfLink = NULL
          /\ q.mdLink = NULL
          /\ q.meta = NULL
          /\ q.summaryLink = NULL

\* C8: when a stage completes, every object of its output list equals, field by
\* field, the stored row with the same id.
C8_Reconciled ==
    (last.op \in {"harvest", "fetch", "convert", "classify", "summary"} /\ ~last.raised) =>
        \A k \in DOMAIN papers :
            \E r \in store :
                /\ r.id = papers[k].id
                /\ \A f \in AllFields : r[f] = papers[k][f]

\* C9: a stage after the harvester completes with an output list of the length
\* and order of its input list, and a record whose download, extraction or
\* generation failed is passed on with its in-memory fields and its stored
\* row unchanged.
C9_BadRecordUnchanged ==
    last.op \in {"fetch", "convert", "classify", "summary"} =>
        /\ ~last.raised
        /\ Len(papers) = Len(log)
        /\ \A k \in DOMAIN log :
              /\ k \in DOMAIN papers
              /\ papers[k] \in log[k].mem1
              /\ \A m \in log[k].mem0 : m.id = papers[k].id /\ m.urlLink = papers[k].urlLink
              /\ log[k].fail \in {"download", "extraction", "generation"} =>
                    /\ log[k].mem1 = log[k].mem0
                    /\ log[k].store1 = log[k].store0

\* C9 as the code has it: the stage completes with an output list of the length
\* and order of its input list; a record whose download failed, or whose file
\* write or store update raised, is passed on with its in-memory fields and
\* its stored row unchanged; a record whose text extraction or summary
\* generation failed gets the fallback document, and its link is set in
\* memory and in the store.
C9_BadRecordPassedOn ==
    last.op \in {"fetch", "convert", "classify", "summary"} =>
        /\ ~last.raised
        /\ Len(papers) = Len(log)
        /\ \A k \in DOMAIN log :
              /\ k \in DOMAIN papers
              /\ papers[k] \in log[k].mem1
              /\ \A m \in log[k].mem0 : m.id = papers[k].id /\ m.urlLink = papers[k].urlLink
              /\ log[k].fail \in {"download", "write", "storage"} =>
                    /\ log[k].mem1 = log[k].mem0
                    /\ log[k].store1 = log[k].store0
              /\ log[k].fail = "extraction" =>
                    /\ papers[k].mdLink # NULL
                    /\ files[papers[k].mdLink] = "placeholder"
                    /\ \A r \in log[k].store1 : r.mdLink = papers[k].mdLink
              /\ log[k].fail = "generation" =>
                    /\ papers[k].summaryLink # NULL
                    /\ files[papers[k].summaryLink] = "heuristic"
                    /\ \A r \in log[k].store1 : r.summaryLink = papers[k].summaryLink

\* The download of the first record failed and the second record was
\* downloaded.
C9_Witness ==
    /\ last.op = "fetch"
    /\ Len(papers) = 2
    /\ log[1].fail = "download"
    /\ log[1].mem1 = log[1].mem0
    /\ log[2].act = "download"
    /\ log[2].fail = ""
    /\ papers[2].pdfLink # NULL

\* C10: a handler in which a store operation failed has raised to its caller.
C10_StorageErrorsPropagate ==
    last.dbError => last.raised

C12_NoConnectionEmptyResult ==
    [][/\ (/\ last'.op = "harvest"
           /\ runs' = runs + 1
           /\ last'.mail.cred # "missing"
           /\ ~last'.mail.connected) =>
              /\ ~last'.raised
              /\ papers' = <<>>
              /\ stage' = "harvested"
              /\ store' = store
              /\ seq' = seq
       /\ (stage \in {"harvested", "fetched", "converted", "classified"}
              /\ papers = <<>>) =>
              /\ ~last'.raised
              /\ stage' # stage
              /\ papers' = <<>>
              /\ store' = store
              /\ files' = files]_vars

\* All five attempts failed in a run over a store an earlier run had filled.
C12_Witness ==
    /\ last.op = "harvest"
    /\ last.mail.cred = "ok"
    /\ ~last.mail.connected
    /\ last.mail.attempts = 5
    /\ last.mail.waits = <<1, 2, 4, 8, 10>>
    /\ stage = "harvested"
    /\ papers = <<>>
    /\ store # {}

\* C13: with the account or password absent, or rejected by the server at
\* login, the harvester raises to its caller without a retry or a wait and
\* inserts no record.
C13_BadCredentialRaises ==
    (last.op = "harvest" /\ last.mail.cred \in {"missing", "rejected"}) =>
        /\ last.raised
        /\ last.mail.attempts <= 1
        /\ last.mail.waits = <<>>
        /\ log = <<>>

\* C14: _validate_pdf accepts a candidate iff the Content-Type of the HEAD
\* response contains application/pdf or the first chunk of the streamed GET
\* begins with %PDF-; it rejects a candidate whose GET fails or is empty.
C14_ValidatePdf ==
    probe.pc = "out" =>
        \A k \in DOMAIN probe.cands :
            (probe.target = 0 \/ k <= probe.target) =>
                LET r == probe.cands[k]
                    byType == /\ ~r.head.raised
                              /\ \E i \in DOMAIN r.head.ct :
                                    r.head.ct[i] \in {"application/pdf", "Application/PDF"}
                    byMarker == /\ r.get.status = "ok"
                                /\ Len(r.get.chunks) >= 1
                                /\ Len(r.get.chunks[1]) >= 5
                                /\ \A i \in 1..5 : r.get.chunks[1][i] = PdfMarker[i]
                IN  (probe.target = k) <=> (byType \/ byMarker)

\* The first candidate was rejected with a failed GET; the second, whose HEAD
\* request failed, was accepted by its first bytes.
C14_Witness ==
    /\ probe.pc = "out"
    /\ Len(probe.cands) = 2
    /\ probe.target = 2
    /\ probe.cands[1].get.status = "error"
    /\ probe.cands[2].head.raised
    /\ probe.cands[2].get.status = "ok"
    /\ probe.reqs = << <<"HEAD", 1>>, <<"GET", 1>>, <<"HEAD", 2>>, <<"GET", 2>> >>

\* C15: _download_pdf never overwrites: in every step every PDF file on disk
\* stays with its content, every download that wrote a file added a path
\* that did not exist, and the files are named base.pdf, base_2.pdf, ...
C15_NeverOverwrites ==
    [][/\ \A q \in DOMAIN files :
             q[1] = "pdf" => q \in DOMAIN files' /\ files'[q] = files[q]
       /\ stage' = "fetched" /\ stage = "harvested" =>
             Cardinality({q \in DOMAIN files' : q[1] = "pdf"})
                 - Cardinality({q \in DOMAIN files : q[1] = "pdf"})
               >= Cardinality({k \in DOMAIN log' :
                                  /\ log'[k].act = "download"
                                  /\ log'[k].fail \in {"", "storage"}})
       /\ \A q \in DOMAIN files' :
             q[1] = "pdf" => \A j \in 1..q[3] : <<"pdf", q[2], j>> \in DOMAIN files'
      ]_vars

\* One url was downloaded twice in one execution, and a third file of the
\* same base name was there before: three files, three names.
C15_Witness ==
    /\ stage = "fetched"
    /\ \A j \in 1..3 : exists(files, <<"pdf", "paper", j>>)
    /\ \E k1, k2 \in DOMAIN log :
          /\ k1 < k2
          /\ log[k1].act = "download" /\ log[k1].fail = ""
          /\ log[k2].act = "download" /\ log[k2].fail = ""
          /\ log[k1].id = log[k2].id
          /\ \E m1 \in log[k1].mem1, m2 \in log[k2].mem1 :
                m1.pdfLink = <<"pdf", "paper", 2>> /\ m2.pdfLink = <<"pdf", "paper", 3>>

\* C16: when the converter processes a record whose stored mdLink names an
\* existing file, it does not extract text again, the file keeps its content
\* and the stored mdLink is the same after as before.
C16_ConverterRerun ==
    [][stage' = "converted" /\ stage = "fetched" =>
         \A k \in DOMAIN log' :
             LET e == log'[k]
             IN  e.mdValid0 =>
                     /\ e.act # "extract"
                     /\ \A r \in e.store0, q \in e.store1 : q.mdLink = r.mdLink
                     /\ \A r \in e.store0 :
                           r.mdLink \in DOMAIN files => files'[r.mdLink] = files[r.mdLink]
      ]_vars

\* C17: every url the harvester extracts from the texts it is given and does
\* not find in the store gets a new record that carries the given subject
\* ("fintech") and is found afterwards by its exact urlLink.
C17_TextListSubject ==
    (last.op = "harvest" /\ ~last.raised) =>
        \A k \in DOMAIN log :
            log[k].act = "insert" =>
                /\ log[k].store1 # {}
                /\ \A r \in log[k].store1 :
                      /\ r.subject = <<"fintech">>
                      /\ \E q \in find_by_url(store, r.urlLink) : q.id = r.id

\* C18 (as stated): list returns records in strictly decreasing id order;
\* without a filter every stored record exactly once, with a subject filter
\* exactly the records whose subject equals the filter as a whole string.
C18_ListAnyFilter ==
    (last.op = "list" /\ ~last.raised) =>
        LET rows == last.rows
            want == IF last.subject = NULL THEN store
                    ELSE {r \in store : r.subject = last.subject}
        IN  /\ \A i, j \in DOMAIN rows : i < j => rows[i].id > rows[j].id
            /\ {rows[i] : i \in DOMAIN rows} = want
            /\ Len(rows) = Cardinality(want)

\* C18 (amended): the same, where an empty string as filter is no filter.
C18_ListNonEmptyFilter ==
    (last.op = "list" /\ ~last.raised) =>
        LET rows == last.rows
            want == IF last.subject \in {NULL, <<"">>} THEN store
                    ELSE {r \in store : r.subject = last.subject}
        IN  /\ \A i, j \in DOMAIN rows : i < j => rows[i].id > rows[j].id
            /\ {rows[i] : i \in DOMAIN rows} = want
            /\ Len(rows) = Cardinality(want)

\* A list filtered by "fintech" over a store that holds a record with
\* subject "fintech" and a record with the multi-label subject "fintech,llm"
\* returned the first and not the second.
C18_Witness ==
    /\ last.op = "list"
    /\ ~last.raised
    /\ last.subject = <<"fintech">>
    /\ \E r \in store : r.subject = <<"fintech,llm">>
    /\ Len(last.rows) >= 1
    /\ \A i \in DOMAIN last.rows : last.rows[i].subject = <<"fintech">>

\* C19: when the classifier processes a record whose stored meta is present,
\* it does not classify it again (no text generation is asked for) and the
\* stored meta, subject and publishTime are the same after as before.
C19_ClassifierSkips ==
    last.op = "classify" =>
        \A k \in DOMAIN log :
            LET e == log[k]
            IN  (\E r \in e.store0 : r.meta # NULL) =>
                    /\ e.act # "classify"
                    /\ \A r \in e.store0, q \in e.store1 :
                          /\ q.meta = r.meta
                          /\ q.subject = r.subject
                          /\ q.publishTime = r.publishTime

\* C20: the PDF acquirer validates the candidates of a record in list order
\* up to the first that validates, downloads that one and no other and
\* persists its path as pdfLink; when none validates no file is created and
\* the stored row and the in-memory record stay as they were; a record whose
\* stored pdfLink names an existing file causes no network request.
C20_FirstValidCandidate ==
    [][stage' = "fetched" /\ stage = "harvested" =>
         /\ \A k \in DOMAIN log' :
               LET e == log'[k]
                   ok == {j \in DOMAIN e.cands : validate_pdf(e.cands[j]).ok}
                   n == IF ok = {} THEN Len(e.cands)
                        ELSE CHOOSE j \in ok : \A i \in ok : j <= i
               IN  IF e.pdfValid0 THEN e.reqs = <<>>
                   ELSE /\ SelectSeq(e.reqs, LAMBDA x : x[1] = "HEAD")
                             = [j \in 1..n |-> <<"HEAD", j>>]
                        /\ \A j \in DOMAIN e.reqs :
                              e.reqs[j][1] = "GET" => e.reqs[j][2] <= n
                        /\ SelectSeq(e.reqs, LAMBDA x : x[1] = "DOWNLOAD")
                             = IF ok = {} THEN <<>> ELSE << <<"DOWNLOAD", n>> >>
                        /\ (ok # {} /\ e.fail = "") =>
                              \E q \in e.store1 :
                                  /\ q.pdfLink # NULL
                                  /\ q.pdfLink \notin DOMAIN files
                                  /\ q.pdfLink \in DOMAIN files'
                        /\ ok = {} => e.store1 = e.store0 /\ e.mem1 = e.mem0
         /\ (\A k \in DOMAIN log' :
                 \A j \in DOMAIN log'[k].cands : ~validate_pdf(log'[k].cands[j]).ok)
               => files' = files
         /\ Len(log') = Len(papers)
      ]_vars

\* C21: _llm_select_subjects returns only labels of the pool, each once, in
\* the order of their first occurrence in the response, and returns the
\* empty list when the capability is absent or fails or the pool is empty.
C21_SelectSubjects ==
    probe.pc = "out" =>
        LET out == probe.out
            pool == {probe.in.subjects[i] : i \in DOMAIN probe.in.subjects}
            raw == Raw(probe.in.resp)
            first(l) == CHOOSE k \in DOMAIN raw :
                            raw[k] = <<l>> /\ \A j \in 1..(k - 1) : raw[j] # <<l>>
        IN  /\ \A i \in DOMAIN out : out[i] \in pool
            /\ \A i, j \in DOMAIN out : i # j => out[i] # out[j]
            /\ (probe.in.llm # "ok" \/ pool = {}) => out = <<>>
            /\ (probe.in.llm = "ok" /\ pool # {}) =>
                  /\ {out[i] : i \in DOMAIN out}
                        = {l \in pool : \E k \in DOMAIN raw : raw[k] = <<l>>}
                  /\ \A i, j \in DOMAIN out : i < j => first(out[i]) < first(out[j])

\* The response "llm,fintech<U+FF0C>llm" over the pool (fintech, llm) gave
\* (llm, fintech).
C21_Witness ==
    /\ probe.pc = "out"
    /\ probe.in.llm = "ok"
    /\ probe.in.resp = <<"llm", ",", "fintech", "U+FF0C", "llm">>
    /\ probe.in.subjects = <<"fintech", "llm">>
    /\ probe.out = <<"llm", "fintech">>

\* C22: a classification stores the selected labels as subject when at least
\* one was selected and leaves the stored subject as it was when none was
\* (absent stays absent); it stores the extracted publication time when one
\* was found and leaves publishTime as it was otherwise.
C22_ClassifierPersistence ==
    last.op = "classify" =>
        \A k \in DOMAIN log :
            LET e == log[k]
            IN  (e.act = "classify" /\ e.fail # "storage") =>
                    \A r \in e.store0, q \in e.store1 :
                        /\ q.subject = IF e.sel # NULL THEN e.sel ELSE r.subject
                        /\ q.publishTime = IF e.found \notin {NULL, <<"">>} THEN e.found
                                            ELSE r.publishTime

\* C23: a record whose mdLink is absent, names no file, or names a file that
\* cannot be read passes the classifier as skipped, with its stored row and
\* its in-memory fields unchanged.
C23_UnreadableSkipped ==
    last.op = "classify" =>
        \A k \in DOMAIN log :
            LET e == log[k]
            IN  (\/ e.fail = "read"
                 \/ \E m \in e.mem0 : m.mdLink = NULL \/ m.mdLink \notin DOMAIN files) =>
                    /\ e.act = "skip"
                    /\ e.store1 = e.store0
                    /\ e.mem1 = e.mem0

\* C24: when the .summary.md file next to a record's mdLink exists, the
\* summarizer generates nothing, leaves the file's content as it is and
\* persists summaryLink pointing at that file.
C24_SummaryReused ==
    [][last'.op = "summary" /\ stage = "classified" =>
         \A k \in DOMAIN log' :
             LET e == log'[k]
             IN  \A m \in e.mem0 :
                     (Valid(files, m.mdLink) /\ exists(files, SummaryPath(m.mdLink))) =>
                         /\ e.act = "reuse"
                         /\ files'[SummaryPath(m.mdLink)] = files[SummaryPath(m.mdLink)]
                         /\ e.fail = "" =>
                               /\ \A q \in e.store1 : q.summaryLink = SummaryPath(m.mdLink)
                               /\ \A m1 \in e.mem1 : m1.summaryLink = SummaryPath(m.mdLink)
      ]_vars

\* A summary file written in an earlier run whose store update failed was
\* reused: the record had no summaryLink and has one now, and the file holds
\* the text of the earlier run.
C24_Witness ==
    /\ last.op = "summary"
    /\ runs = 2
    /\ \E k \in DOMAIN log :
          /\ log[k].act = "reuse"
          /\ log[k].fail = ""
          /\ \E r \in log[k].store0, q \in log[k].store1 :
                /\ r.summaryLink = NULL
                /\ q.summaryLink = SummaryPath(q.mdLink)
                /\ exists(files, q.summaryLink)
                /\ files[q.summaryLink] = "llm"

\* C25: for a record with a valid mdLink and no summary file, the summarizer
\* writes the file and persists summaryLink whatever the text-generation
\* capability does; the file holds the heuristic summary exactly when the
\* capability is absent, fails or answers with empty text.
C25_SummaryFallback ==
    [][last'.op = "summary" /\ stage = "classified" =>
         \A k \in DOMAIN log' :
             LET e == log'[k]
             IN  \A m \in e.mem0 :
                   LET sp == SummaryPath(m.mdLink)
                   IN  /\ (Valid(files, m.mdLink) /\ ~exists(files, sp)) =>
                             \/ e.act = "generate"
                             \/ /\ e.act = "reuse"
                                /\ \E j \in 1..(k - 1) :
                                      /\ log'[j].act = "generate"
                                      /\ \E n \in log'[j].mem0 : n.mdLink = m.mdLink
                       /\ e.act = "generate" =>
                             /\ e.gen \in {"text", "none", "raise", "empty"}
                             /\ e.fail # "write" =>
                                   /\ exists(files', sp)
                                   /\ files'[sp] = "heuristic" <=> e.gen # "text"
                                   /\ files'[sp] = "llm" <=> e.gen = "text"
                             /\ e.fail \notin {"write", "storage"} =>
                                   /\ \A q \in e.store1 : q.summaryLink = sp
                                   /\ \A m1 \in e.mem1 : m1.summaryLink = sp
      ]_vars

\* One execution summarized a record with the capability's text and another
\* record, for which the capability raised, with the heuristic summary.
C25_Witness ==
    /\ last.op = "summary"
    /\ \E j, k \in DOMAIN log :
          /\ log[j].act = "generate" /\ log[j].gen = "text" /\ log[j].fail = ""
          /\ log[k].act = "generate" /\ log[k].gen = "raise" /\ log[k].fail = "generation"
          /\ \E q \in log[k].store1 :
                /\ q.summaryLink # NULL
                /\ exists(files, q.summaryLink)
                /\ files[q.summaryLink] = "heuristic"

\* C26: in the output of _to_markdown a short line in capitals is a heading;
\* the first non-empty line, when short, is a heading exactly if the text
\* has no heading in capitals, whether or not blank lines precede it; a
\* blank line stays a blank line and every other line is passed unchanged.
C26_HeadingRule ==
    (probe.pc = "out" /\ probe.in # <<>>) =>
        LET lines == probe.in
            out == probe.out
            capitals == \E j \in DOMAIN lines : IsShort(lines[j]) /\ IsUpper(lines[j])
            isFirst(i) == lines[i] # "" /\ \A j \in 1..(i - 1) : lines[j] = ""
        IN  /\ Len(out) = Len(lines)
            /\ \A i \in DOMAIN lines :
                  CASE lines[i] = "" -> out[i] = <<FALSE, "">>
                    [] IsShort(lines[i]) /\ IsUpper(lines[i]) -> out[i][1]
                    [] lines[i] # "" /\ IsShort(lines[i]) /\ ~IsUpper(lines[i])
                         /\ isFirst(i) /\ ~capitals -> out[i] = <<TRUE, lines[i]>>
                    [] OTHER -> out[i] = <<FALSE, lines[i]>>

\* C27: unless the storage layer fails, upsert_by_url(url, fieldMap) with a
\* fieldMap over the optional fields (the empty map included) returns: the
\* id of the record with that urlLink, updated in place, if there is one,
\* and else the id of the one record it inserts; find_by_url(url) then gives
\* the record with that id and the given field values; no record with
\* another urlLink is changed.
C27_Upsert ==
    [][(/\ last'.op = "upsert"
        /\ admin' # admin
        /\ DOMAIN last'.updates \subseteq OptFields
        /\ ~last'.fault) =>
         LET u == last'.url
             fm == last'.updates
             old == find_by_url(store, u)
         IN  /\ ~last'.raised
             /\ old # {} => /\ Cardinality(store') = Cardinality(store)
                            /\ last'.ret \in {r.id : r \in old}
             /\ old = {} => /\ Cardinality(store') = Cardinality(store) + 1
                            /\ last'.ret \notin Ids(store)
             /\ \E r \in find_by_url(store', u) :
                   /\ r.id = last'.ret
                   /\ \A f \in DOMAIN fm : r[f] = fm[f]
             /\ \A r \in store : r.urlLink # u => r \in store'
      ]_vars

\* C28 (as stated): when two harvesters on one store have both processed
\* their urls, every url both extracted has exactly one record, whatever the
\* interleaving of their find_by_url and insert_paper steps.
C28_DedupAnyInterleaving ==
    (probe.pc = "race" /\ \A h \in Harvesters : probe.k[h] > Len(probe.urls[h])) =>
        \A u \in URLS :
            (\A h \in Harvesters : \E i \in DOMAIN probe.urls[h] : probe.urls[h][i] = u) =>
                Cardinality(RowsByUrl(store, u)) = 1

\* C28 (amended): the same for every interleaving in which no insert_paper
\* of a url falls between the other harvester's find_by_url and insert_paper
\* of that url; then no url ever has two records.
C28_DedupSingleWriter ==
    (probe.pc = "race" /\ ~probe.raced) =>
        /\ \A u \in URLS : Cardinality(RowsByUrl(store, u)) <= 1
        /\ (\A h \in Harvesters : probe.k[h] > Len(probe.urls[h])) =>
              \A u \in URLS :
                  (\E h \in Harvesters : \E i \in DOMAIN probe.urls[h] : probe.urls[h][i] = u)
                      => Cardinality(RowsByUrl(store, u)) = 1

\* Both harvesters extracted "a" then "b"; the first inserted "a", the second
\* found it and inserted "b", which the first then found: their steps
\* alternated, each url has one record and both lists name the same ids.
C28_Witness ==
    /\ probe.pc = "race"
    /\ ~probe.raced
    /\ \A h \in Harvesters : probe.urls[h] = <<"a", "b">> /\ probe.k[h] = 3
    /\ Cardinality(store) = 2
    /\ probe.out[1] = probe.out[2]
    /\ \E r \in store : r.urlLink = "b" /\ r.id = 2

\* C29: the stages of a run execute in the order harvester, PDF acquirer,
\* converter, classifier, summarizer, each over the whole list; the run
\* ends and the graph stays at rest; and when no external call has failed, every record of
\* the list has pdfLink, mdLink, meta and summaryLink set in the store when
\* the run ends.
C29_Progress ==
    /\ [][/\ <<stage, stage', last'.op>> \in
                {<<"idle", "idle", "harvest">>,
                 <<"idle", "harvested", "harvest">>,
                 <<"harvested", "fetched", "fetch">>,
                 <<"fetched", "converted", "convert">>,
                 <<"converted", "classified", "classify">>,
                 <<"classified", "idle", "summary">>}
          /\ stage # "idle" => Len(papers') = Len(papers) /\ Len(log') = Len(papers)
         ]_vars
    /\ <>[](stage = "idle")
    /\ []((last.op = "summary" /\ faults = 0) =>
            \A k \in DOMAIN papers :
                \E r \in store :
                    /\ r.id = papers[k].id
                    /\ r.pdfLink # NULL
                    /\ r.mdLink # NULL
                    /\ r.meta # NULL
                    /\ r.summaryLink # NULL)

\* A run in which nothing failed has ended with two records, both complete.
C29_Witness ==
    /\ last.op = "summary"
    /\ stage = "idle"
    /\ faults = 0
    /\ Len(papers) = 2
    /\ papers[1].id # papers[2].id
    /\ \A r \in store : /\ Valid(files, r.pdfLink)
                         /\ Valid(files, r.mdLink)
                         /\ r.meta # NULL
                         /\ Valid(files, r.summaryLink)

\* C30: a stage writes only its own fields of a stored record (PDF acquirer
\* pdfLink; converter mdLink; classifier meta, subject, publishTime;
\* summarizer summaryLink); the harvester leaves stored records as they are,
\* returns them as stored, and creates records with every optional field
\* absent; no stage changes an id or urlLink, modifies a record whose id is
\* not in its input list, or deletes a record.
C30_StageFrame ==
    [][LET Optional == {"pdfLink", "mdLink", "summaryLink", "meta", "publishTime", "subject"}
           Own == CASE last'.op = "fetch"    -> {"pdfLink"}
                    [] last'.op = "convert"  -> {"mdLink"}
                    [] last'.op = "classify" -> {"meta", "subject", "publishTime"}
                    [] last'.op = "summary"  -> {"summaryLink"}
                    [] OTHER                 -> {}
       IN  /\ \A r \in store :
                 \E q \in store' :
                     /\ q.id = r.id
                     /\ q.urlLink = r.urlLink
                     /\ \A f \in Optional \ Own : q[f] = r[f]
                     /\ q # r => \E k \in DOMAIN papers : papers[k].id = r.id
           /\ last'.op = "harvest" =>
                 /\ \A q \in store' \ store : \A f \in Optional : q[f] = NULL
                 /\ \A k \in DOMAIN papers' : papers'[k] \in store'
           /\ last'.op # "harvest" => Ids(store') = Ids(store)
      ]_vars

\* The classifier has just written meta and subject of a record whose pdfLink
\* and mdLink are set, next to a stored record that is not in its input list.
C30_Witness ==
    /\ last.op = "classify"
    /\ \E r \in store :
          /\ r.pdfLink # NULL
          /\ r.mdLink # NULL
          /\ r.meta # NULL
          /\ r.subject # NULL
          /\ \E k \in DOMAIN papers : papers[k].id = r.id
    /\ \E r \in store : \A k \in DOMAIN papers : papers[k].id # r.id

====
